---- MODULE Spec2Model ----
(***************************************************************************)
(* Session admission and confirmation of the BrowserStack connector.       *)
(*                                                                         *)
(* The hub-based connector (src/unnamed/part_001) opens a browser with     *)
(* startBrowser, which retries _startBrowser.  One _startBrowser run arms  *)
(* an opening timer and registers a listener on the Hub (src/src/hub.js),  *)
(* creates a remote worker, polls its status and awaits the listener.      *)
(* waitForFreeMachines polls the free machine count.                       *)
(*                                                                         *)
(* Every await of the source is a suspension point; the code between two   *)
(* suspension points runs atomically (one event-loop turn) and is one      *)
(* action here.  The remote API, the timers and the inbound HTTP requests  *)
(* are the environment: their outcomes and their order are free.           *)
(***************************************************************************)
EXTENDS Integers, Sequences, FiniteSets, TLC

----------------------------------------------------------------------------
(* Bounds of the model *)

\* Largest explicit maxAttepts option a caller passes (0 stands for an
\* absent or falsy option, which selects the default).
MaxAttemptsOpt == 2

\* Number of _startBrowser runs of one call the model can represent; it is
\* larger than every effective maxAttepts, so the retry bound is decided by
\* the loop guard and not by this cap.
MaxRuns == 4

\* Largest machineCount and maxAttemptCount passed to waitForFreeMachines
MaxMachineCount == 2
MaxAttemptCount == 3

\* Largest session limit and number of listed workers the remote API reports
MaxQuota == 3
MaxWorkers == 3

----------------------------------------------------------------------------
(* Program constants *)

DEFAULT_BROWSER_OPENING_MAX_ATTEMPT == 3

\* maxAttempts of the status poll loop of _getWorker
GetWorkerMaxAttempts == 30

\* The event the Hub emits for an inbound GET /:id
HubEmittedEvent == "open"

\* The event _startBrowser registers hubHandler for
ListenedEvent == "browser-opened"

----------------------------------------------------------------------------
(* Universe *)

\* Concurrent callers of startBrowser on one connector (one Hub).
Calls == {"c1", "c2"}

\* One _startBrowser run: the call and the ordinal of the run in it.
Attempts == Calls \X (1..MaxRuns)

\* uid(10): a fresh identifier per run; the run itself stands for it.
browserId(a) == a

\* An identifier no run has minted (a stray or stale inbound request).
UnknownId == <<"none", 0>>

VARIABLES
    option,           \* per call: the maxAttepts option its caller passes
    pc,               \* per call: where startBrowser is suspended
    maxAttepts,       \* per call: effective maxAttepts
    attempt,          \* per call: failed attempts counted by startBrowser
    error,            \* per call: last captured error
    runs,             \* per call: number of _startBrowser runs started
    attempts,         \* per call: `attempts` of the running _getWorker
    result,           \* per call: the run whose worker was returned
    worker,           \* per run: the `worker` variable of _startBrowser
    created,          \* runs whose createWorker succeeded (remote worker exists)
    timeoutId,        \* per run: state of the opening timer and its handler
    listeners,        \* runs whose hubHandler is registered on the Hub
    waitForUrlOpened, \* per run: state of the waitForUrlOpened promise
    terminateCalls,   \* per run: terminateWorker calls issued for its worker
    notified,         \* runs whose id the Hub received while they listened
    res,              \* the Hub's answer to the last request it received
    wfmPc,            \* where waitForFreeMachines is suspended
    machineCount,     \* its argument machineCount
    maxAttemptCount,  \* its argument maxAttemptCount
    wfmAttempts,      \* its variable `attempts`
    freeHist,         \* the free machine counts its polls computed, in order
    polls,            \* _getFreeMachineCount calls it issued
    sleeps,           \* wait(requestInterval) calls it issued
    wfmError,         \* the error it failed with
    queryFailed       \* one of its remote queries answered with an error

sbVars == <<option, pc, maxAttepts, attempt, error, runs, attempts, result,
            worker, created, timeoutId, listeners, waitForUrlOpened,
            terminateCalls, notified, res>>

wfmVars == <<wfmPc, machineCount, maxAttemptCount, wfmAttempts, freeHist,
             polls, sleeps, wfmError, queryFailed>>

vars == <<sbVars, wfmVars>>

NoRun == <<"none", 0>>

\* The run a call is currently executing.
Cur(c) == <<c, runs[c]>>

\* The runs started so far; their identifiers are the ones in circulation.
Minted == {a \in Attempts : a[2] <= runs[a[1]]}

----------------------------------------------------------------------------
(* Hub *)

\* A dispatch that runs every registered handler, whatever the event and
\* the id (no per-id filtering anywhere).
EmitToAll(ev, id) == listeners

\* emit(ev, id) as seen by the listeners of _startBrowser: the runs whose
\* hubHandler is registered for ev and whose guard id === browserId passes.
Emit(ev, id) ==
    {a \in listeners : ListenedEvent = ev /\ id = browserId(a)}

\* A Hub that answers 404 to a request no listener was waiting for.
RedirectOnlyWaiters(id, hit) ==
    <<id, IF hit = {} THEN "notFound" ELSE "redirect">>

\* return res.redirect(url): the answer to the request for id, whatever the
\* listeners hit did with the event.
Redirect(id, hit) == <<id, "redirect">>

\* app.get('/:id'): emit the event with the id of the path, then redirect.
\* hubHandler of every run the emit reaches removes itself, clears the
\* timer and resolves waitForUrlOpened.
HubGet(id) ==
    LET hit == Emit(HubEmittedEvent, id) IN
    /\ listeners' = listeners \ hit
    /\ timeoutId' = [a \in Attempts |->
            IF a \in hit /\ timeoutId[a] = "pending"
            THEN "cleared" ELSE timeoutId[a]]
    /\ waitForUrlOpened' = [a \in Attempts |->
            IF a \in hit /\ waitForUrlOpened[a] = "pending"
            THEN "resolved" ELSE waitForUrlOpened[a]]
    /\ notified' = notified \cup {a \in listeners : browserId(a) = id}
    /\ res' = Redirect(id, hit)
    /\ UNCHANGED <<option, pc, maxAttepts, attempt, error, runs, attempts,
                   result, worker, created, terminateCalls>>
    /\ UNCHANGED wfmVars

----------------------------------------------------------------------------
(* startBrowser and _startBrowser *)

\* maxAttepts = maxAttepts || DEFAULT_BROWSER_OPENING_MAX_ATTEMPT
EffectiveMaxAttepts(opt) ==
    IF opt = 0 THEN DEFAULT_BROWSER_OPENING_MAX_ATTEMPT ELSE opt

\* The loop guard with <= for <.
LoopGuardOffByOne(n, m) == n <= m

\* while (attempt < maxAttepts && !worker) with n failed attempts; the
\* worker of startBrowser is null whenever the guard is evaluated (its
\* only assignment ends the loop or throws).
LoopGuard(n, m) == n < m

\* A timer handler that resolves where it should reject.
TimeoutResolves == "resolved"

\* What the opening timer's handler does to waitForUrlOpened after
\* stopBrowser resolved: reject('Browser starting timeout expired').
TimeoutSettles == "rejected"

\* A loop whose run issues createWorker without having armed the timer
\* and registered the listener first.
LoopListensLate(c, n, err, m) ==
    IF n < m
    THEN /\ runs[c] < MaxRuns
         /\ runs' = [runs EXCEPT ![c] = @ + 1]
         /\ error' = [error EXCEPT ![c] = "null"]
         /\ worker' = [worker EXCEPT ![<<c, runs[c] + 1>>] = "null"]
         /\ pc' = [pc EXCEPT ![c] = "createWorker"]
         /\ UNCHANGED <<timeoutId, listeners, waitForUrlOpened>>
    ELSE /\ pc' = [pc EXCEPT ![c] = "failed"]
         /\ error' = [error EXCEPT ![c] = err]
         /\ UNCHANGED <<runs, worker, timeoutId, listeners, waitForUrlOpened>>

\* One evaluation of the loop of startBrowser with n failed attempts and
\* captured error err.  If the guard passes, the synchronous prefix of
\* _startBrowser runs: mint browserId, worker = null, arm the timer, add
\* the listener, issue createWorker.  Otherwise the aggregate error is
\* thrown (err is set whenever the guard fails).
Loop(c, n, err, m) ==
    IF LoopGuard(n, m)
    THEN /\ runs[c] < MaxRuns
         /\ LET a == <<c, runs[c] + 1>> IN
            /\ runs' = [runs EXCEPT ![c] = @ + 1]
            /\ error' = [error EXCEPT ![c] = "null"]
            /\ worker' = [worker EXCEPT ![a] = "null"]
            /\ timeoutId' = [timeoutId EXCEPT ![a] = "pending"]
            /\ listeners' = listeners \cup {a}
            /\ waitForUrlOpened' = [waitForUrlOpened EXCEPT ![a] = "pending"]
            /\ pc' = [pc EXCEPT ![c] = "createWorker"]
    ELSE /\ pc' = [pc EXCEPT ![c] = "failed"]
         /\ error' = [error EXCEPT ![c] = err]
         /\ UNCHANGED <<runs, worker, timeoutId, listeners, waitForUrlOpened>>

\* The error run a rejected with, read off the state of a run that is over:
\* no worker (createWorker failed), a rejected wait (the timeout), or a
\* resolved wait with no worker object (the TypeError of line 150).
RunError(a) ==
    IF a \notin created THEN "createWorkerError"
    ELSE IF waitForUrlOpened[a] = "rejected" THEN "timeoutExpired"
    ELSE "TypeError"

\* A catch that keeps the error of the first failed run.
CatchKeepsFirst(c, err) ==
    /\ attempt' = [attempt EXCEPT ![c] = @ + 1]
    /\ Loop(c, attempt[c] + 1,
            IF runs[c] = 1 THEN err ELSE RunError(<<c, 1>>), maxAttepts[c])

\* catch (err) { error = err; attempt++; } and the next loop evaluation.
Catch(c, err) ==
    /\ attempt' = [attempt EXCEPT ![c] = @ + 1]
    /\ Loop(c, attempt[c] + 1, err, maxAttepts[c])

\* A caller invokes startBrowser.
StartBrowser(c) ==
    /\ pc[c] = "idle"
    /\ maxAttepts' = [maxAttepts EXCEPT ![c] = EffectiveMaxAttepts(option[c])]
    /\ attempt' = [attempt EXCEPT ![c] = 0]
    /\ Loop(c, 0, "null", EffectiveMaxAttepts(option[c]))
    /\ UNCHANGED <<option, attempts, result, created, terminateCalls, notified,
                   res>>
    /\ UNCHANGED wfmVars

\* The createWorker callback: on success _getWorker starts, on error the
\* run rejects (its timer and listener stay as they are).
CreateWorkerResp(c, ok) ==
    /\ pc[c] = "createWorker"
    /\ IF ok
       THEN /\ created' = created \cup {Cur(c)}
            /\ attempts' = [attempts EXCEPT ![c] = 0]
            /\ pc' = [pc EXCEPT ![c] = "getWorker"]
            /\ UNCHANGED <<attempt, error, runs, worker, timeoutId, listeners,
                           waitForUrlOpened>>
       ELSE /\ Catch(c, "createWorkerError")
            /\ UNCHANGED <<created, attempts>>
    /\ UNCHANGED <<option, maxAttepts, result, terminateCalls, notified, res>>
    /\ UNCHANGED wfmVars

\* One evaluation of while (attempts++ <= maxAttempts) in _getWorker and,
\* if it passes, one status query with its answer: a running worker is
\* returned and assigned to `worker`, otherwise the loop sleeps and comes
\* back here.  When the guard fails _getWorker returns undefined.
GetWorkerStep(c, running) ==
    /\ pc[c] = "getWorker"
    /\ IF attempts[c] <= GetWorkerMaxAttempts /\ ~running
       THEN /\ attempts' = [attempts EXCEPT ![c] = @ + 1]
            /\ UNCHANGED <<pc, worker>>
       ELSE /\ attempts' = [attempts EXCEPT ![c] = 0]
            /\ worker' = [worker EXCEPT ![Cur(c)] =
                    IF attempts[c] <= GetWorkerMaxAttempts
                    THEN "running" ELSE "undefined"]
            /\ pc' = [pc EXCEPT ![c] = "await"]
    /\ UNCHANGED <<option, maxAttepts, attempt, error, runs, result, created,
                   timeoutId, listeners, waitForUrlOpened, terminateCalls,
                   notified, res>>
    /\ UNCHANGED wfmVars

\* The continuation of await waitForUrlOpened: resolved, the run logs
\* worker.browser_url (a TypeError if worker is undefined) and returns the
\* worker, which startBrowser returns; rejected, startBrowser catches.
AwaitSettled(c) ==
    /\ pc[c] = "await"
    /\ waitForUrlOpened[Cur(c)] # "pending"
    /\ IF waitForUrlOpened[Cur(c)] = "resolved" /\ worker[Cur(c)] = "running"
       THEN /\ pc' = [pc EXCEPT ![c] = "returned"]
            /\ result' = [result EXCEPT ![c] = Cur(c)]
            /\ UNCHANGED <<attempt, error, runs, worker, timeoutId, listeners,
                           waitForUrlOpened>>
       ELSE /\ Catch(c, IF waitForUrlOpened[Cur(c)] = "resolved"
                        THEN "TypeError" ELSE "timeoutExpired")
            /\ UNCHANGED result
    /\ UNCHANGED <<option, maxAttepts, attempts, created, terminateCalls,
                   notified, res>>
    /\ UNCHANGED wfmVars

\* The opening timer fires: the handler removes the listener and calls
\* stopBrowser(worker.id); reading worker.id throws a TypeError while
\* worker is null or undefined, which ends the handler.
TimerFire(a) ==
    /\ timeoutId[a] = "pending"
    /\ listeners' = listeners \ {a}
    /\ IF worker[a] = "running"
       THEN /\ terminateCalls' = [terminateCalls EXCEPT ![a] = @ + 1]
            /\ timeoutId' = [timeoutId EXCEPT ![a] = "stopBrowser"]
       ELSE /\ timeoutId' = [timeoutId EXCEPT ![a] = "threw"]
            /\ UNCHANGED terminateCalls
    /\ UNCHANGED <<option, pc, maxAttepts, attempt, error, runs, attempts,
                   result, worker, created, waitForUrlOpened, notified,
                   res>>
    /\ UNCHANGED wfmVars

\* The terminateWorker callback inside the timer handler: on success the
\* handler rejects waitForUrlOpened, on error the await throws and the
\* handler ends without settling it.
TerminateResp(a, ok) ==
    /\ timeoutId[a] = "stopBrowser"
    /\ IF ok
       THEN /\ timeoutId' = [timeoutId EXCEPT ![a] = "expired"]
            /\ waitForUrlOpened' = [waitForUrlOpened EXCEPT ![a] =
                    IF @ = "pending" THEN TimeoutSettles ELSE @]
       ELSE /\ timeoutId' = [timeoutId EXCEPT ![a] = "threw"]
            /\ UNCHANGED waitForUrlOpened
    /\ UNCHANGED <<option, pc, maxAttepts, attempt, error, runs, attempts,
                   result, worker, created, listeners, terminateCalls,
                   notified, res>>
    /\ UNCHANGED wfmVars

----------------------------------------------------------------------------
(* waitForFreeMachines *)

\* What the remote queries can answer when they succeed: sessions_limit
\* of getApiStatus and the length of the list of getWorkers.
QuotaAnswers == 0..MaxQuota
WorkersAnswers == 0..MaxWorkers

\* return maxMachines - workers.length
_getFreeMachineCount(maxMachines, workers) == maxMachines - workers

\* The admission loop guard with <= for <.
WfmLoopGuardOffByOne(n, m) == n <= m

\* while (attempts < maxAttemptCount)
WfmLoopGuard(n, m) == n < m

\* The admission comparison with > for >=.
FreeEnoughStrict(free, count) == free > count

\* if (freeMachineCount >= machineCount) return
FreeEnough(free, count) == free >= count

\* One evaluation of the loop with n attempts: the next poll is issued, or
\* 'There are no free machines' is thrown.
WfmLoop(n) ==
    IF WfmLoopGuard(n, maxAttemptCount)
    THEN /\ wfmPc' = "polling"
         /\ polls' = polls + 1
         /\ UNCHANGED wfmError
    ELSE /\ wfmPc' = "failed"
         /\ wfmError' = "NoFreeMachines"
         /\ UNCHANGED polls

\* A caller invokes waitForFreeMachines.
WaitForFreeMachines ==
    /\ wfmPc = "idle"
    /\ wfmAttempts' = 0
    /\ WfmLoop(0)
    /\ UNCHANGED <<machineCount, maxAttemptCount, freeHist, sleeps,
                   queryFailed>>
    /\ UNCHANGED sbVars

\* A poll in which only a failed getApiStatus throws: the failed listing
\* is taken for a list.
PollThrowsQuotaOnly(qErr, wErr) == qErr

\* Whether _getFreeMachineCount throws: _getMaxAvailableMachines rejects
\* on an error of getApiStatus; _getWorkers resolves undefined on an error
\* of getWorkers, and workers.length then throws a TypeError.
PollThrows(qErr, wErr) == qErr \/ wErr

\* Both queries of _getFreeMachineCount have answered (Promise.all).  A
\* failed getApiStatus rejects; a failed getWorkers resolves undefined, and
\* workers.length throws a TypeError.  Otherwise the free count is compared
\* with machineCount: return, or log and sleep.
WfmPoll(q, w, qErr, wErr) ==
    /\ wfmPc = "polling"
    /\ queryFailed' = (queryFailed \/ qErr \/ wErr)
    /\ IF PollThrows(qErr, wErr)
       THEN /\ wfmPc' = "rejected"
            /\ wfmError' = IF qErr THEN "apiError" ELSE "TypeError"
            /\ UNCHANGED <<freeHist, sleeps>>
       ELSE /\ freeHist' = Append(freeHist, _getFreeMachineCount(q, w))
            /\ IF FreeEnough(_getFreeMachineCount(q, w), machineCount)
               THEN /\ wfmPc' = "returned"
                    /\ UNCHANGED sleeps
               ELSE /\ wfmPc' = "sleeping"
                    /\ sleeps' = sleeps + 1
            /\ UNCHANGED wfmError
    /\ UNCHANGED <<machineCount, maxAttemptCount, wfmAttempts, polls>>
    /\ UNCHANGED sbVars

\* wait(requestInterval) is over: attempts++ and the next loop evaluation.
WfmWake ==
    /\ wfmPc = "sleeping"
    /\ wfmAttempts' = wfmAttempts + 1
    /\ WfmLoop(wfmAttempts + 1)
    /\ UNCHANGED <<machineCount, maxAttemptCount, freeHist, sleeps,
                   queryFailed>>
    /\ UNCHANGED sbVars

----------------------------------------------------------------------------
(* Specifications *)

InitRuns ==
    /\ maxAttepts = [c \in Calls |-> 0]
    /\ attempt = [c \in Calls |-> 0]
    /\ error = [c \in Calls |-> "null"]
    /\ runs = [c \in Calls |-> 0]
    /\ attempts = [c \in Calls |-> 0]
    /\ result = [c \in Calls |-> NoRun]
    /\ worker = [a \in Attempts |-> "null"]
    /\ created = {}
    /\ timeoutId = [a \in Attempts |-> "unset"]
    /\ listeners = {}
    /\ waitForUrlOpened = [a \in Attempts |-> "none"]
    /\ terminateCalls = [a \in Attempts |-> 0]
    /\ notified = {}
    /\ res = << >>

InitWfmVars ==
    /\ wfmAttempts = 0
    /\ freeHist = << >>
    /\ polls = 0
    /\ sleeps = 0
    /\ wfmError = "null"
    /\ queryFailed = FALSE

\* One caller, any maxAttepts option.
Init ==
    /\ option \in [Calls -> 0..MaxAttemptsOpt]
    /\ option["c2"] = 0
    /\ pc = [c \in Calls |-> IF c = "c1" THEN "idle" ELSE "absent"]
    /\ InitRuns
    /\ wfmPc = "absent"
    /\ machineCount = 0
    /\ maxAttemptCount = 0
    /\ InitWfmVars

\* Two concurrent callers, each asking for a single attempt.
InitTwo ==
    /\ option = [c \in Calls |-> 1]
    /\ pc = [c \in Calls |-> "idle"]
    /\ InitRuns
    /\ wfmPc = "absent"
    /\ machineCount = 0
    /\ maxAttemptCount = 0
    /\ InitWfmVars

\* One caller of waitForFreeMachines, any arguments.
InitWfm ==
    /\ option = [c \in Calls |-> 0]
    /\ pc = [c \in Calls |-> "absent"]
    /\ InitRuns
    /\ wfmPc = "idle"
    /\ machineCount \in 0..MaxMachineCount
    /\ maxAttemptCount \in 0..MaxAttemptCount
    /\ InitWfmVars

Next ==
    \/ \E c \in Calls : StartBrowser(c)
    \/ \E c \in Calls, ok \in BOOLEAN : CreateWorkerResp(c, ok)
    \/ \E c \in Calls, running \in BOOLEAN : GetWorkerStep(c, running)
    \/ \E c \in Calls : AwaitSettled(c)
    \/ \E a \in Attempts : TimerFire(a)
    \/ \E a \in Attempts, ok \in BOOLEAN : TerminateResp(a, ok)
    \/ \E id \in Minted \cup {UnknownId} : HubGet(id)

WfmNext ==
    \/ WaitForFreeMachines
    \/ \E q \in QuotaAnswers, w \in WorkersAnswers, qErr, wErr \in BOOLEAN :
          WfmPoll(q, w, qErr, wErr)
    \/ WfmWake

Spec == Init /\ [][Next]_vars

SpecTwo == InitTwo /\ [][Next]_vars

SpecWfm == InitWfm /\ [][WfmNext]_vars

\* The event loop runs every continuation that is ready, every armed timer
\* fires, and every remote call that was issued is answered.
Fairness ==
    /\ \A c \in Calls : WF_vars(StartBrowser(c))
    /\ \A c \in Calls : WF_vars(\E ok \in BOOLEAN : CreateWorkerResp(c, ok))
    /\ \A c \in Calls :
          WF_vars(\E running \in BOOLEAN : GetWorkerStep(c, running))
    /\ \A c \in Calls : WF_vars(AwaitSettled(c))
    /\ \A a \in Attempts : WF_vars(TimerFire(a))
    /\ \A a \in Attempts : WF_vars(\E ok \in BOOLEAN : TerminateResp(a, ok))

FairSpec == Init /\ [][Next]_vars /\ Fairness

----------------------------------------------------------------------------
(* Properties *)

RunsOf(c) == {a \in Minted : a[1] = c}

\* createWorker succeeded for these runs of c; terminateWorker calls of c.
CreatedBy(c) == {a \in created : a[1] = c}
TerminatedBy(c) == {a \in RunsOf(c) : terminateCalls[a] >= 1}

\* The opening timer of run a fired and its handler has run to its end.
TimerHandlerOver(a) == timeoutId[a] \in {"threw", "expired"}

\* C1: a call of startBrowser with maxAttepts N starts at most N runs of
\* _startBrowser, each of which issues one createWorker.
RetryBound ==
    \A c \in Calls :
        /\ runs[c] <= EffectiveMaxAttepts(option[c])
        /\ Cardinality(CreatedBy(c)) <= EffectiveMaxAttepts(option[c])
        /\ attempt[c] <= runs[c]

\* A call that asked for two attempts used both of them and failed.
RetryBoundWitness ==
    \E c \in Calls :
        option[c] = 2 /\ pc[c] = "failed" /\ runs[c] = 2 /\ attempt[c] = 2

\* C2: startBrowser returns a worker only from a run whose worker is
\* running and whose id the Hub received before the opening timer fired;
\* a run that lacks either is never the returned one.
NoPartialSuccess ==
    \A c \in Calls :
        /\ pc[c] = "returned" =>
              /\ result[c] \in RunsOf(c)
              /\ worker[result[c]] = "running"
              /\ result[c] \in notified
              /\ timeoutId[result[c]] = "cleared"
        /\ result[c] # NoRun => pc[c] = "returned"
        /\ \A a \in RunsOf(c) :
              (worker[a] # "running" \/ a \notin notified
                 \/ timeoutId[a] # "cleared") => result[c] # a

\* A call failed although its last run had a running worker: the opening
\* timer expired without confirmation and nothing was returned.
NoPartialSuccessWitness ==
    \E c \in Calls :
        /\ pc[c] = "failed"
        /\ result[c] = NoRun
        /\ worker[Cur(c)] = "running"
        /\ timeoutId[Cur(c)] = "expired"

\* C3: in a run whose worker was created and whose opening timer fired
\* (no notification in time), once the timer's handler is over the run has
\* failed with the timeout error and terminateWorker was called exactly
\* once for the worker.
TimeoutCleanup ==
    \A a \in created :
        TimerHandlerOver(a) =>
            /\ terminateCalls[a] = 1
            /\ waitForUrlOpened[a] = "rejected"

\* C4: a run whose listener was registered when the Hub received the GET
\* request with its id, before the timer fired, has its confirmation wait
\* resolved.
NoLostWakeup ==
    \A a \in notified : waitForUrlOpened[a] = "resolved"

\* C5: a Hub request for one id never resolves the wait, clears the timer
\* or removes the listener of a run registered under another id.
CorrelationIsolation ==
    [][\A id \in Minted \cup {UnknownId}, b \in Attempts :
          (HubGet(id) /\ id # browserId(b)) =>
              /\ waitForUrlOpened'[b] = waitForUrlOpened[b]
              /\ timeoutId'[b] = timeoutId[b]
              /\ (b \in listeners') = (b \in listeners)]_vars

\* Two runs of different calls wait on the Hub; the Hub has received the
\* request of one of them and the other still waits, timer pending.
CorrelationIsolationWitness ==
    \E a, b \in listeners :
        /\ a[1] # b[1]
        /\ a \in notified
        /\ b \notin notified
        /\ waitForUrlOpened[b] = "pending"
        /\ timeoutId[b] = "pending"

\* A remote call of call c has failed: a createWorker (a run past its
\* create step without a worker) or a terminateWorker (a handler that
\* threw after issuing it).
ApiCallFailed(c) ==
    \E a \in RunsOf(c) :
        \/ a \notin created /\ (a # Cur(c) \/ pc[c] # "createWorker")
        \/ timeoutId[a] = "threw" /\ terminateCalls[a] >= 1

\* C6: with no Hub notification and every remote call succeeding, a call
\* with maxAttepts N ends failed with the timeout error after exactly N
\* createWorker calls and N terminateWorker calls, whatever the timing.
NoCallbackScenario ==
    \A c \in Calls :
        pc[c] = "idle" ~>
            \/ ApiCallFailed(c)
            \/ RunsOf(c) \cap notified # {}
            \/ /\ pc[c] = "failed"
               /\ error[c] = "timeoutExpired"
               /\ Cardinality(CreatedBy(c)) = maxAttepts[c]
               /\ Cardinality(TerminatedBy(c)) = maxAttepts[c]

\* C7: every call of startBrowser that was started returns or throws.
EveryCallEnds ==
    \A c \in Calls :
        pc[c] \in {"createWorker", "getWorker", "await"}
            ~> pc[c] \in {"returned", "failed"}

\* Run a can no longer produce a worker for its call: it rejected, or its
\* timer handler is over and its wait is not resolved.
AttemptFailed(a) ==
    /\ a \in Minted
    /\ result[a[1]] # a
    /\ waitForUrlOpened[a] # "resolved"
    /\ \/ a # Cur(a[1])
       \/ pc[a[1]] = "failed"
       \/ TimerHandlerOver(a)

\* C8: every worker created by a run that failed has received a
\* terminateWorker call, also when the timer fired before status polling
\* returned the worker or after the poll budget was exhausted.
NoDanglingWorker ==
    \A a \in created : AttemptFailed(a) => terminateCalls[a] >= 1

\* The i-th poll found enough free machines.
Fits(i) == freeHist[i] >= machineCount

\* C9: the first poll that finds free >= machineCount is the last one:
\* waitForFreeMachines has returned, with no sleep and no query after it;
\* free counts 1 then 3 with machineCount 2 return after exactly 2 polls.
AdmissionReturnsAtFirstFit ==
    /\ \A i \in 1..Len(freeHist) :
          Fits(i) =>
              /\ i = Len(freeHist)
              /\ wfmPc = "returned"
              /\ polls = i
              /\ sleeps = i - 1
    /\ wfmPc = "returned" => Len(freeHist) >= 1 /\ Fits(Len(freeHist))
    /\ (Len(freeHist) >= 2 /\ freeHist[1] = 1 /\ freeHist[2] = 3
          /\ machineCount = 2) => (wfmPc = "returned" /\ polls = 2)

\* Free counts 1 then 3 with machineCount 2: returned after the second poll.
AdmissionReturnsWitness ==
    /\ machineCount = 2
    /\ freeHist = <<1, 3>>
    /\ wfmPc = "returned"

\* C10: while every poll finds free < machineCount, waitForFreeMachines
\* never returns and never polls more than maxAttemptCount times; it fails
\* with 'There are no free machines' only after exactly maxAttemptCount
\* polls, and after that many polls nothing but the failure is left.
AdmissionExhaustion ==
    LET allBelow == \A i \in 1..Len(freeHist) : ~Fits(i) IN
    /\ polls <= maxAttemptCount
    /\ allBelow => wfmPc # "returned"
    /\ wfmPc = "failed" =>
          /\ wfmError = "NoFreeMachines"
          /\ polls = maxAttemptCount
          /\ Len(freeHist) = maxAttemptCount
          /\ allBelow
    /\ (allBelow /\ Len(freeHist) = maxAttemptCount /\ wfmPc # "idle")
          => wfmPc \in {"sleeping", "failed"}

\* Three polls, all short of machineCount, then the failure.
AdmissionExhaustionWitness ==
    /\ wfmPc = "failed"
    /\ maxAttemptCount = 3
    /\ polls = 3
    /\ Len(freeHist) = 3

\* C11: with machineCount = 0 and queries that answer, waitForFreeMachines
\* returns at once: it never sleeps and never fails with 'There are no
\* free machines', whatever the quota, the workers and maxAttemptCount.
ZeroRequiredSucceeds ==
    machineCount = 0 =>
        /\ wfmPc \in {"absent", "idle", "polling", "returned", "rejected"}
        /\ sleeps = 0
        /\ wfmError # "NoFreeMachines"

\* C12: a call that failed reports the error of its last run, and a call
\* that is running or has returned holds no error of an earlier run.
LastErrorReported ==
    \A c \in Calls :
        /\ pc[c] = "failed" =>
              /\ error[c] # "null"
              /\ error[c] = RunError(Cur(c))
              /\ attempt[c] = runs[c]
        /\ pc[c] \in {"createWorker", "getWorker", "await", "returned"}
              => error[c] = "null"

\* A call failed after a run that could not create its worker and a last
\* run that timed out: the two runs ended with different errors.
LastErrorReportedWitness ==
    \E c \in Calls :
        /\ pc[c] = "failed"
        /\ runs[c] >= 2
        /\ RunError(<<c, 1>>) = "createWorkerError"
        /\ RunError(Cur(c)) = "timeoutExpired"

\* C13: once a quota query or a worker listing of waitForFreeMachines has
\* failed, the call has failed with an error on that poll: the poll gave
\* no free count, the call did not return and no later poll was issued.
QueryFailurePropagates ==
    queryFailed =>
        /\ wfmPc = "rejected"
        /\ wfmError \in {"apiError", "TypeError"}
        /\ polls = Len(freeHist) + 1

\* The worker listing of the second poll failed and the call failed there.
QueryFailurePropagatesWitness ==
    /\ queryFailed
    /\ wfmPc = "rejected"
    /\ wfmError = "TypeError"
    /\ polls = 2
    /\ Len(freeHist) = 1

\* C14: in the step that issues the createWorker request of a run, the
\* run's listener is already registered on the Hub and its opening timer
\* armed, and no worker exists yet; no run has a worker without having had
\* its timer armed.
RegistrationPrecedesCreate ==
    [][/\ \A a \in Attempts :
             (a \notin Minted /\ a \in Minted') =>
                 /\ a \in listeners'
                 /\ timeoutId'[a] = "pending"
                 /\ waitForUrlOpened'[a] = "pending"
                 /\ a \notin created'
       /\ \A a \in created' : timeoutId'[a] # "unset"]_vars

\* A createWorker request is in flight, its run listens and its timer is
\* pending.
RegistrationPrecedesCreateWitness ==
    \E c \in Calls :
        /\ pc[c] = "createWorker"
        /\ Cur(c) \in listeners
        /\ timeoutId[Cur(c)] = "pending"
        /\ Cur(c) \notin created

\* C15: when a call starts its next run (mints the next id), the run before
\* it is torn down: its listener is off the Hub, its opening timer is no
\* longer pending and the worker it created has been sent a terminate.
TeardownBeforeRetry ==
    [][\A c \in Calls :
          (runs[c] >= 1 /\ runs'[c] = runs[c] + 1) =>
              /\ Cur(c) \notin listeners
              /\ timeoutId[Cur(c)] # "pending"
              /\ Cur(c) \in created => terminateCalls[Cur(c)] >= 1]_vars

\* C16: a run whose _getWorker gave up (the worker never became running)
\* ends in a failure that startBrowser catches and counts.
PollExhaustionFails ==
    \A c \in Calls, k \in 1..MaxRuns :
        (pc[c] = "await" /\ runs[c] = k /\ worker[<<c, k>>] = "undefined")
            ~> attempt[c] >= k

\* C17: a run whose id the Hub received while its timer was pending has
\* its timer cleared and its listener removed, and its worker is never
\* sent a terminate by the opener.
NotificationCancelsTimer ==
    \A a \in notified :
        /\ timeoutId[a] = "cleared"
        /\ a \notin listeners
        /\ terminateCalls[a] = 0

\* C19: _getWorker issues at most maxAttempts status queries for one
\* worker (attempts counts the queries answered 'not running' so far).
StatusPollBudget ==
    \A c \in Calls : attempts[c] <= GetWorkerMaxAttempts

\* C20: whenever the opening timer of a run fires, the run's worker
\* variable holds the running worker.
TimerFiresWithWorker ==
    [][\A a \in Attempts : TimerFire(a) => worker[a] = "running"]_vars

\* C18: a request the Hub receives for an id fulfils at most one waiting
\* run, only a run registered under that id, and that run's listener is
\* off the Hub in the same step; a request for an id no listener is
\* registered under (unknown, late or repeated) changes no run and no
\* call; and every request is answered with the redirect.
SingleDelivery ==
    [][\A id \in Minted \cup {UnknownId} :
          HubGet(id) =>
              LET fulfilled == {a \in Attempts :
                                   /\ waitForUrlOpened[a] = "pending"
                                   /\ waitForUrlOpened'[a] = "resolved"}
              IN  /\ Cardinality(fulfilled) <= 1
                  /\ \A a \in fulfilled :
                        browserId(a) = id /\ a \notin listeners'
                  /\ (\A a \in listeners : browserId(a) # id) =>
                        /\ waitForUrlOpened' = waitForUrlOpened
                        /\ timeoutId' = timeoutId
                        /\ listeners' = listeners
                        /\ worker' = worker
                        /\ pc' = pc
                        /\ attempt' = attempt
                  /\ res' = <<id, "redirect">>]_vars

\* The Hub has answered with the redirect a request for the id of a run
\* that was never listening when its id arrived (a late request: the run's
\* timer had already fired), while another run of the call waits.
SingleDeliveryWitness ==
    \E a \in Minted, b \in listeners :
        /\ res = <<browserId(a), "redirect">>
        /\ a \notin notified
        /\ a \notin listeners
        /\ TimerHandlerOver(a)
        /\ b # a
        /\ waitForUrlOpened[b] = "pending"

====
